---- MODULE Spec2Model ----
(***************************************************************************)
(* Model of app.py: the affiliation processor (process_file with           *)
(* extract_departments) and the department statistics                      *)
(* (process_department_stats) that the script runs on an uploaded CSV.     *)
(*                                                                         *)
(* A Python str is a sequence of tokens.  A token is a word, or one of the *)
(* characters the code splits and strips on: ";" , "," and " " (white      *)
(* space next to a delimiter).  The blank between two words of a phrase is *)
(* implicit.  `x in s` is contiguous sub-sequence, s.lower() maps every    *)
(* token to its lower-case form, so "Shivaji" and "shivaji" differ until   *)
(* lowered.  A phrase that ends inside a word is not found: of the phrases *)
(* of app.py only the alias "Shivaji Univ" (line 67) does, and the code    *)
(* never searches a segment for an alias.                                  *)
(*                                                                         *)
(* One run of the script is modelled: the upload, process_file, then       *)
(* process_department_stats.  An exception ends the run.                   *)
(***************************************************************************)
EXTENDS Integers, Sequences, FiniteSets, TLC

VARIABLES uploaded_file, pc, processed_df, stats_df

vars == <<uploaded_file, pc, processed_df, stats_df>>

-----------------------------------------------------------------------------
(* The module-level tables of app.py, lines 14-37, and the literal lists   *)
(* of extract_departments, lines 53, 60 and 67.                            *)

\* app.py line 14
valid_affiliations ==
    << <<"Shivaji", "University">>,
       <<"Saveetha", "University">> >>

\* app.py line 17
exclusion_keywords ==
    << <<"College">>,
       <<"Affiliated", "to">>,
       <<"Rajarambapu", "Institute", "of", "Technology">>,
       <<"Bhogawati", "Mahavidyalaya">>,
       <<"ADCET">>,
       <<"AMGOI">>,
       <<"Ashokrao", "Mane", "Group", "of", "Institutes">>,
       <<"Sanjay", "Ghodawat", "Group", "of", "Institutions">>,
       <<"Patangrao", "Kadam">>,
       <<"Centre", "for", "PG", "Studies">>,
       <<"D.", "Y.", "Patil", "Education", "Society">> >>

\* app.py lines 20-37
valid_departments ==
    << <<"Department", "of", "Agrochemicals", "and", "Pest", "Management">>,
       <<"Department", "of", "Bio-Chemistry">>,
       <<"Department", "of", "Bio-Technology">>,
       <<"Department", "of", "Botany">>,
       <<"Department", "of", "Chemistry">>,
       <<"Department", "of", "Commerce", "and", "Management">>,
       <<"Department", "of", "Commerce", "and", "Management", "M.B.A.", "Unit">>,
       <<"Department", "of", "Computer", "Science">>,
       <<"Department", "of", "Economics">>,
       <<"FE", "Department", "of", "Education">>,
       <<"Department", "of", "Electronics">>,
       <<"Department", "of", "English">>,
       <<"Department", "of", "Environmental", "Science">>,
       <<"Department", "of", "Food", "Science", "and", "Technology">>,
       <<"Department", "of", "Foreign", "Languages">>,
       <<"Department", "of", "Geography">>,
       <<"Department", "of", "Hindi">>,
       <<"Department", "of", "History">>,
       <<"Department", "of", "Journalism", "and", "Mass", "Communication">>,
       <<"Department", "of", "Law">>,
       <<"Department", "of", "Library", "and", "Information", "Science">>,
       <<"Department", "of", "Lifelong", "Learning", "and", "Extension">>,
       <<"Department", "of", "Marathi">>,
       <<"Department", "of", "Mathematics">>,
       <<"Department", "of", "Mass", "Communication">>,
       <<"Department", "of", "Microbiology">>,
       <<"Department", "of", "Music", "and", "Dramatics">>,
       <<"Department", "of", "Physics">>,
       <<"FE", "Department", "of", "Political", "Science">>,
       <<"Department", "of", "Psychology">>,
       <<"Department", "of", "Sociology">>,
       <<"Department", "of", "Sports">>,
       <<"Department", "of", "Statistics">>,
       <<"Department", "of", "Technology">>,
       <<"Department", "of", "Zoology">>,
       <<"School", "of", "Nanoscience", "and", "Biotechnology">>,
       <<"Department", "of", "Biochemistry">>,
       <<"Department", "of", "Biotechnology">>,
       <<"Yashwantrao", "Chavan", "School", "of", "Rural", "Development">>,
       <<"UGC", "Center", "For", "Coaching", "For", "Competitive", "Examinations", "UGC", "Center">> >>

\* app.py line 53: the literal list of the first loop of extract_departments
nanoscience_aliases ==
    << <<"School", "of", "Nanoscience">>,
       <<"School", "of", "Nanoscience", "and", "Technology">>,
       <<"Department", "of", "Nanoscience", "&", "Nanotechnology">>,
       <<"School", "of", "Nanoscience", "&", "Biotechnology">>,
       <<"School", "of", "Nanoscience", "&", "Technology">>,
       <<"School", "of", "Nanoscience", "and", "Bio-Technology">> >>

\* app.py line 60: the literal list of the second loop
chemistry_aliases ==
    << <<"Chemistry", "Department">>,
       <<"Analytical", "Chemistry", "Laboratory">>,
       <<"Dept.", "of", "Chemistry">> >>

\* app.py line 67: the literal list of the third loop
physics_aliases ==
    << <<"Physics", "Department">>,
       <<"Air", "Glass", "Laboratory">>,
       <<"Dept.", "of", "Phys.">>,
       <<"Dept.", "of", "Physics">>,
       <<"Shivaji", "Univ">>,
       <<"Dept.", "Phys.">> >>

Other == <<"Other">>

SchoolOfNanoscienceAndBiotechnology == <<"School", "of", "Nanoscience", "and", "Biotechnology">>

DepartmentOfChemistry == <<"Department", "of", "Chemistry">>

DepartmentOfPhysics == <<"Department", "of", "Physics">>

SaveethaUniversity == <<"Saveetha", "University">>

-----------------------------------------------------------------------------
(* Python str operations on token sequences.                               *)

\* The lower-case form of every token that holds an upper-case letter.
LowerCase ==
    "A" :> "a" @@ "ABC" :> "abc" @@ "ADCET" :> "adcet" @@
    "AMGOI" :> "amgoi" @@ "Affiliated" :> "affiliated" @@ "Agrochemicals" :> "agrochemicals" @@
    "Air" :> "air" @@ "Analytical" :> "analytical" @@ "Ashokrao" :> "ashokrao" @@
    "B" :> "b" @@ "Bhogawati" :> "bhogawati" @@ "Bio-Chemistry" :> "bio-chemistry" @@
    "Bio-Technology" :> "bio-technology" @@ "Biochemistry" :> "biochemistry" @@ "Biotechnology" :> "biotechnology" @@
    "Botany" :> "botany" @@ "C" :> "c" @@ "Center" :> "center" @@
    "Centre" :> "centre" @@ "Chavan" :> "chavan" @@ "Chemistry" :> "chemistry" @@
    "Chennai" :> "chennai" @@ "Coaching" :> "coaching" @@ "College" :> "college" @@
    "Commerce" :> "commerce" @@ "Communication" :> "communication" @@ "Competitive" :> "competitive" @@
    "Computer" :> "computer" @@ "D" :> "d" @@ "D." :> "d." @@
    "Department" :> "department" @@ "Dept." :> "dept." @@ "Development" :> "development" @@
    "Dramatics" :> "dramatics" @@ "E" :> "e" @@ "Economics" :> "economics" @@
    "Education" :> "education" @@ "Electronics" :> "electronics" @@ "English" :> "english" @@
    "Environmental" :> "environmental" @@ "Examinations" :> "examinations" @@ "Extension" :> "extension" @@
    "F" :> "f" @@ "FE" :> "fe" @@ "Food" :> "food" @@
    "For" :> "for" @@ "Foreign" :> "foreign" @@ "Geography" :> "geography" @@
    "Ghodawat" :> "ghodawat" @@ "Glass" :> "glass" @@ "Group" :> "group" @@
    "H" :> "h" @@ "Hindi" :> "hindi" @@ "History" :> "history" @@
    "Information" :> "information" @@ "Institute" :> "institute" @@ "Institutes" :> "institutes" @@
    "Institutions" :> "institutions" @@ "Journalism" :> "journalism" @@ "Kadam" :> "kadam" @@
    "Laboratory" :> "laboratory" @@ "Languages" :> "languages" @@ "Law" :> "law" @@
    "Learning" :> "learning" @@ "Library" :> "library" @@ "Lifelong" :> "lifelong" @@
    "M.B.A." :> "m.b.a." @@ "Mahavidyalaya" :> "mahavidyalaya" @@ "Management" :> "management" @@
    "Mane" :> "mane" @@ "Marathi" :> "marathi" @@ "Mass" :> "mass" @@
    "Mathematics" :> "mathematics" @@ "Microbiology" :> "microbiology" @@ "Music" :> "music" @@
    "Nanoscience" :> "nanoscience" @@ "Nanotechnology" :> "nanotechnology" @@ "PG" :> "pg" @@
    "Patangrao" :> "patangrao" @@ "Patil" :> "patil" @@ "Pest" :> "pest" @@
    "Phys." :> "phys." @@ "Physics" :> "physics" @@ "Political" :> "political" @@
    "Psychology" :> "psychology" @@ "Pune" :> "pune" @@ "Rajarambapu" :> "rajarambapu" @@
    "Rural" :> "rural" @@ "Sanjay" :> "sanjay" @@ "Saveetha" :> "saveetha" @@
    "School" :> "school" @@ "Science" :> "science" @@ "Shivaji" :> "shivaji" @@
    "Society" :> "society" @@ "Sociology" :> "sociology" @@ "Sports" :> "sports" @@
    "Statistics" :> "statistics" @@ "Studies" :> "studies" @@ "Technology" :> "technology" @@
    "UGC" :> "ugc" @@ "Unit" :> "unit" @@ "Univ" :> "univ" @@
    "University" :> "university" @@ "Y." :> "y." @@ "Yashwantrao" :> "yashwantrao" @@
    "Zoology" :> "zoology"

\* str.lower() on one token
LowerToken(t) == IF t \in DOMAIN LowerCase THEN LowerCase[t] ELSE t

\* str.lower()
Lower(s) == [i \in 1..Len(s) |-> LowerToken(s[i])]

\* `sub in s`
Contains(sub, s) ==
    \/ sub = <<>>
    \/ \E i \in 1..(Len(s) - Len(sub) + 1) :
           s[i] = sub[1] /\ SubSeq(s, i, i + Len(sub) - 1) = sub

\* `x in list`
InList(x, list) == \E i \in 1..Len(list) : list[i] = x

RECURSIVE LStrip(_)
LStrip(s) == IF s # <<>> /\ Head(s) = " " THEN LStrip(Tail(s)) ELSE s

RECURSIVE RStrip(_)
RStrip(s) ==
    IF s # <<>> /\ s[Len(s)] = " " THEN RStrip(SubSeq(s, 1, Len(s) - 1)) ELSE s

\* str.strip()
Strip(s) == RStrip(LStrip(s))

\* The index of the first occurrence of the one-token separator, 0 if none.
FirstIndex(s, sep) ==
    IF \E i \in 1..Len(s) : s[i] = sep
    THEN CHOOSE i \in 1..Len(s) : s[i] = sep /\ \A j \in 1..(i - 1) : s[j] # sep
    ELSE 0

\* str.split(sep) for a one-character separator
RECURSIVE Split(_, _)
Split(s, sep) ==
    LET i == FirstIndex(s, sep)
    IN  IF i = 0 THEN <<s>>
        ELSE <<SubSeq(s, 1, i - 1)>> \o Split(SubSeq(s, i + 1, Len(s)), sep)

\* str.split(sep, 1)
SplitOnce(s, sep) ==
    LET i == FirstIndex(s, sep)
    IN  IF i = 0 THEN <<s>>
        ELSE <<SubSeq(s, 1, i - 1), SubSeq(s, i + 1, Len(s))>>

\* sep.join(list)
RECURSIVE Join(_, _)
Join(sep, list) ==
    IF list = <<>> THEN <<>>
    ELSE IF Len(list) = 1 THEN list[1]
    ELSE list[1] \o sep \o Join(sep, Tail(list))

-----------------------------------------------------------------------------
(* Values of a table cell as pandas hands them to the code: a str, a       *)
(* number, or NaN (the float that read_csv puts in an empty cell).         *)

StrCell(s) == [t |-> "str", s |-> s, v |-> 0]

NumCell(n) == [t |-> "num", s |-> <<>>, v |-> n]

NaN == [t |-> "nan", s |-> <<>>, v |-> 0]

\* A Python float: a number or nan.  nan + x = x + nan = nan.
Float(n) == [nan |-> FALSE, v |-> n]

FloatNaN == [nan |-> TRUE, v |-> 0]

FloatAdd(a, b) ==
    IF a.nan \/ b.nan THEN FloatNaN ELSE Float(a.v + b.v)

\* The numerals a str cell may hold; any other str makes float() raise.
Numeral == "3" :> 3 @@ "5" :> 5

\* float(x) raises ValueError
FloatRaises(cell) ==
    cell.t = "str" /\ ~(Len(cell.s) = 1 /\ cell.s[1] \in DOMAIN Numeral)

\* float(x) when it does not raise; float(nan) is nan
FloatOf(cell) ==
    IF cell.t = "num" THEN Float(cell.v)
    ELSE IF cell.t = "nan" THEN FloatNaN
    ELSE Float(Numeral[cell.s[1]])

\* None, a DataFrame, and the outcome of a call that raised.
None == [kind |-> "None", columns |-> <<>>, rows |-> <<>>]

DataFrame(columns, rows) ==
    [kind |-> "DataFrame", columns |-> columns, rows |-> rows]

Raise == [kind |-> "raise", columns |-> <<>>, rows |-> <<>>]

\* df[column] = cell, on every row; a new column goes last
SetColumn(df, column, cell) ==
    DataFrame(
        IF InList(column, df.columns) THEN df.columns
        ELSE Append(df.columns, column),
        [i \in 1..Len(df.rows) |->
            [c \in DOMAIN df.rows[i] \cup {column} |->
                IF c = column THEN cell ELSE df.rows[i][c]]])

\* df.at[index, column] = cell
SetAt(rows, index, column, cell) ==
    [rows EXCEPT ![index] = [@ EXCEPT ![column] = cell]]

-----------------------------------------------------------------------------
(* extract_departments, app.py lines 41-74.                                *)

\* line 46: the segment names a valid affiliation
HasValidAffiliation(seg_clean) ==
    LET lowered == Lower(seg_clean)
    IN  \E k \in 1..Len(valid_affiliations) :
            Contains(Lower(valid_affiliations[k]), lowered)

\* line 48: the segment holds an exclusion keyword
HasExclusionKeyword(seg_clean) ==
    LET lowered == Lower(seg_clean)
    IN  \E k \in 1..Len(exclusion_keywords) :
            Contains(Lower(exclusion_keywords[k]), lowered)

\* lines 50-51, 57-58, 64-65 and 169-170: the entries of valid_departments,
\* in order, on which `if dept.lower() in seg_clean.lower()` lets the body
\* of the loop run
MatchingDepartments(seg_clean) ==
    LET lowered == Lower(seg_clean)
    IN  SelectSeq(valid_departments, LAMBDA dept : Contains(Lower(dept), lowered))

\* lines 52-56: the body of the first loop, for one dept found in the segment
NanoscienceStep(matching_departments, dept) ==
    IF /\ InList(dept, nanoscience_aliases)
       /\ ~InList(SchoolOfNanoscienceAndBiotechnology, matching_departments)
    THEN Append(matching_departments, SchoolOfNanoscienceAndBiotechnology)
    ELSE matching_departments

\* lines 59-63: the body of the second loop, for one dept found in the segment
ChemistryStep(matching_departments, dept) ==
    IF /\ InList(dept, chemistry_aliases)
       /\ ~InList(DepartmentOfChemistry, matching_departments)
    THEN Append(matching_departments, DepartmentOfChemistry)
    ELSE matching_departments

\* PhysicsStep without the test `dept not in matching_departments`
PhysicsStepNoDedup(matching_departments, dept) ==
    IF InList(dept, physics_aliases)
    THEN IF ~InList(DepartmentOfPhysics, matching_departments)
         THEN Append(matching_departments, DepartmentOfPhysics)
         ELSE matching_departments
    ELSE Append(matching_departments, dept)

\* PhysicsStep appending the lowered name it matched with
PhysicsStepLowered(matching_departments, dept) ==
    IF InList(dept, physics_aliases)
    THEN IF ~InList(DepartmentOfPhysics, matching_departments)
         THEN Append(matching_departments, DepartmentOfPhysics)
         ELSE matching_departments
    ELSE IF ~InList(Lower(dept), matching_departments)
         THEN Append(matching_departments, Lower(dept))
         ELSE matching_departments

\* lines 66-73: the body of the third loop, for one dept found in the segment
PhysicsStep(matching_departments, dept) ==
    IF InList(dept, physics_aliases)
    THEN IF ~InList(DepartmentOfPhysics, matching_departments)
         THEN Append(matching_departments, DepartmentOfPhysics)
         ELSE matching_departments
    ELSE IF ~InList(dept, matching_departments)
         THEN Append(matching_departments, dept)
         ELSE matching_departments

\* line 50: the first loop over the depts found, from the k-th on
RECURSIVE NanoscienceLoop(_, _, _)
NanoscienceLoop(matching_departments, depts, k) ==
    IF k > Len(depts) THEN matching_departments
    ELSE NanoscienceLoop(NanoscienceStep(matching_departments, depts[k]),
                         depts, k + 1)

\* line 57
RECURSIVE ChemistryLoop(_, _, _)
ChemistryLoop(matching_departments, depts, k) ==
    IF k > Len(depts) THEN matching_departments
    ELSE ChemistryLoop(ChemistryStep(matching_departments, depts[k]),
                       depts, k + 1)

\* line 64
RECURSIVE PhysicsLoop(_, _, _)
PhysicsLoop(matching_departments, depts, k) ==
    IF k > Len(depts) THEN matching_departments
    ELSE PhysicsLoop(PhysicsStep(matching_departments, depts[k]),
                     depts, k + 1)

\* lines 46-49: the segment is considered
IsConsidered(seg_clean) ==
    HasValidAffiliation(seg_clean) /\ ~HasExclusionKeyword(seg_clean)

\* lines 45-73: the body of `for seg in segments`
SegmentStep(matching_departments, seg) ==
    LET seg_clean == Strip(seg)
        depts == MatchingDepartments(seg_clean)
    IN  IF ~IsConsidered(seg_clean) THEN matching_departments
        ELSE PhysicsLoop(
                 ChemistryLoop(
                     NanoscienceLoop(matching_departments, depts, 1),
                     depts, 1),
                 depts, 1)

\* line 44: for seg in segments, from the k-th on
RECURSIVE SegmentLoop(_, _, _)
SegmentLoop(matching_departments, segments, k) ==
    IF k > Len(segments) THEN matching_departments
    ELSE SegmentLoop(SegmentStep(matching_departments, segments[k]), segments, k + 1)

\* line 74
DepartmentLabel(matching_departments) ==
    IF matching_departments # <<>>
    THEN Join(<<";", " ">>, matching_departments)
    ELSE Other

\* extract_departments(affiliation_str), for a str argument
extract_departments(affiliation_str) ==
    DepartmentLabel(SegmentLoop(<<>>, Split(affiliation_str, ";"), 1))

-----------------------------------------------------------------------------
(* process_file, app.py lines 77-122.                                      *)

\* lines 86-92 and 134-140: the affiliation column, "" when there is none
AffilField(columns) ==
    IF InList("Affiliations", columns) THEN "Affiliations"
    ELSE IF InList("Authors with affiliations", columns)
         THEN "Authors with affiliations"
         ELSE ""

\* lines 108-114: the test on the affiliation of a "Name, Affiliation" part
IsValidAuthor(affiliation) ==
    IF Contains(SaveethaUniversity, affiliation)
    THEN InList(SaveethaUniversity, valid_affiliations)
    ELSE /\ \E k \in 1..Len(valid_affiliations) :
                Contains(valid_affiliations[k], affiliation)
         /\ LET lowered == Lower(affiliation)
            IN  ~\E k \in 1..Len(exclusion_keywords) :
                    Contains(Lower(exclusion_keywords[k]), lowered)

\* lines 103-114: the body of `for part in parts_list`
AuthorStep(valid_authors, part) ==
    LET components == SplitOnce(Strip(part), ",")
    IN  IF Len(components) = 2
        THEN LET name == components[1]
                 affiliation == Strip(components[2])
             IN  IF IsValidAuthor(affiliation)
                 THEN Append(valid_authors, <<Strip(name), affiliation>>)
                 ELSE valid_authors
        ELSE valid_authors

\* line 101: for part in parts_list, from the k-th on
RECURSIVE AuthorLoop(_, _, _)
AuthorLoop(valid_authors, parts_list, k) ==
    IF k > Len(parts_list) THEN valid_authors
    ELSE AuthorLoop(AuthorStep(valid_authors, parts_list[k]), parts_list, k + 1)

\* CorrespondingOf taking valid_authors[0]
CorrespondingOfFirst(valid_authors) == valid_authors[1]

\* line 116: valid_authors[-1]
CorrespondingOf(valid_authors) == valid_authors[Len(valid_authors)]

\* lines 98-118: the body of `for index, row in df.iterrows()`, for a str
CorrespondingStep(rows, index, affil_text) ==
    LET valid_authors == AuthorLoop(<<>>, Split(affil_text, ";"), 1)
    IN  IF valid_authors # <<>>
        THEN SetAt(
                 SetAt(rows, index, "Corresponding Author",
                       StrCell(CorrespondingOf(valid_authors)[1])),
                 index, "Corresponding Affiliation",
                 StrCell(CorrespondingOf(valid_authors)[2]))
        ELSE rows

\* line 97: the rows from index on; line 99 raises AttributeError on a
\* value that is no str
RECURSIVE CorrespondingLoop(_, _, _)
CorrespondingLoop(rows, affil_field, index) ==
    IF index > Len(rows) THEN [raised |-> FALSE, rows |-> rows]
    ELSE IF rows[index][affil_field].t # "str"
         THEN [raised |-> TRUE, rows |-> rows]
         ELSE CorrespondingLoop(
                  CorrespondingStep(rows, index, rows[index][affil_field].s),
                  affil_field, index + 1)

\* line 121: df["Department"] = df[affil_field].apply(extract_departments)
DepartmentColumn(df, affil_field) ==
    DataFrame(
        Append(df.columns, "Department"),
        [i \in 1..Len(df.rows) |->
            [c \in DOMAIN df.rows[i] \cup {"Department"} |->
                IF c = "Department"
                THEN StrCell(extract_departments(df.rows[i][affil_field].s))
                ELSE df.rows[i][c]]])

\* process_file(file): None, a DataFrame, or Raise.  A file without
\* columns is the empty CSV on which read_csv raises EmptyDataError.
process_file(file) ==
    IF file.columns = <<>> THEN None
    ELSE IF AffilField(file.columns) = "" THEN None
    ELSE LET affil_field == AffilField(file.columns)
             df == SetColumn(
                       SetColumn(DataFrame(file.columns, file.rows),
                                 "Corresponding Author", StrCell(<<>>)),
                       "Corresponding Affiliation", StrCell(<<>>))
             loop == CorrespondingLoop(df.rows, affil_field, 1)
         IN  IF loop.raised THEN Raise
             ELSE DepartmentColumn(DataFrame(df.columns, loop.rows), affil_field)

-----------------------------------------------------------------------------
(* process_department_stats, app.py lines 125-182.  The dict stats keeps   *)
(* insertion order: it is the sequence of its entries.                     *)

\* lines 147-148
InitialStats ==
    [k \in 1..(Len(valid_departments) + 1) |->
        [Department |-> IF k <= Len(valid_departments)
                        THEN valid_departments[k] ELSE Other,
         Papers |-> 0,
         Citations |-> Float(0)]]

\* lines 171-172 and 175-176: stats[dept]["Papers"] += 1,
\* stats[dept]["Citations"] += citations
AddPaper(stats, dept, citations) ==
    [k \in DOMAIN stats |->
        IF stats[k].Department = dept
        THEN [stats[k] EXCEPT !.Papers = @ + 1,
                              !.Citations = FloatAdd(@, citations)]
        ELSE stats[k]]

\* lines 153-157: float(citations), 0 when it raises
CitationsOf(cell) == IF FloatRaises(cell) THEN Float(0) ELSE FloatOf(cell)

\* lines 171-173: the body of `for dept in valid_departments`, for one dept
\* found in the segment
TallyStep(acc, dept, citations) ==
    [stats |-> AddPaper(acc.stats, dept, citations), found |-> TRUE]

\* line 169: the loop over the depts found, from the k-th on
RECURSIVE TallyLoop(_, _, _, _)
TallyLoop(acc, depts, citations, k) ==
    IF k > Len(depts) THEN acc
    ELSE TallyLoop(TallyStep(acc, depts[k], citations), depts, citations, k + 1)

\* lines 162-173: the body of `for seg in segments`
TallySegment(acc, seg, citations) ==
    LET seg_clean == Strip(seg)
    IN  IF ~HasValidAffiliation(seg_clean) THEN acc
        ELSE IF HasExclusionKeyword(seg_clean) THEN acc
        ELSE TallyLoop(acc, MatchingDepartments(seg_clean), citations, 1)

\* line 161
RECURSIVE TallySegments(_, _, _, _)
TallySegments(acc, segments, citations, k) ==
    IF k > Len(segments) THEN acc
    ELSE TallySegments(TallySegment(acc, segments[k], citations),
                       segments, citations, k + 1)

\* lines 152-176: the body of `for index, row in df.iterrows()`, for a str
TallyRow(stats, affil_text, cited_by) ==
    LET citations == CitationsOf(cited_by)
        acc == TallySegments([stats |-> stats, found |-> FALSE],
                             Split(affil_text, ";"), citations, 1)
    IN  IF ~acc.found THEN AddPaper(acc.stats, Other, citations) ELSE acc.stats

\* line 151: the rows from index on; line 159 raises AttributeError on a
\* value that is no str
RECURSIVE TallyRows(_, _, _, _)
TallyRows(stats, rows, affil_field, index) ==
    IF index > Len(rows) THEN [raised |-> FALSE, stats |-> stats]
    ELSE IF rows[index][affil_field].t # "str"
         THEN [raised |-> TRUE, stats |-> stats]
         ELSE TallyRows(
                  TallyRow(stats, rows[index][affil_field].s,
                           rows[index]["Cited by"]),
                  rows, affil_field, index + 1)

\* StatsFrame keeping only the departments that were counted
StatsFrameCounted(stats) ==
    DataFrame(<<"Department", "Papers", "Citations">>,
              SelectSeq(stats, LAMBDA entry : entry.Papers > 0))

\* lines 178-182: one row per entry of stats, in its order
StatsFrame(stats) == DataFrame(<<"Department", "Papers", "Citations">>, stats)

\* process_department_stats(file): None, a DataFrame, or Raise
process_department_stats(file) ==
    IF file.columns = <<>> THEN None
    ELSE IF AffilField(file.columns) = "" THEN None
    ELSE LET affil_field == AffilField(file.columns)
             df == IF ~InList("Cited by", file.columns)
                   THEN SetColumn(DataFrame(file.columns, file.rows),
                                  "Cited by", NumCell(0))
                   ELSE DataFrame(file.columns, file.rows)
             loop == TallyRows(InitialStats, df.rows, affil_field, 1)
         IN  IF loop.raised THEN Raise ELSE StatsFrame(loop.stats)

-----------------------------------------------------------------------------
(* The CSV files a user may upload.                                        *)

\* The most segments of one affiliation value in AuthorFiles.
MaxSegs == 3

\* The most rows of a table in TableFiles and UncitedFiles.
MaxRows == 2

\* "a, b"
Comma(a, b) == a \o <<",", " ">> \o b

\* The affiliation segments the affiliation values are built from.
SegmentPool ==
    { Comma(<<"A">>, Comma(<<"ABC", "College">>, <<"Shivaji", "University">>)),
      Comma(<<"B">>, Comma(<<"Department", "of", "Physics">>,
                           <<"Shivaji", "University">>)),
      Comma(<<"C">>, <<"Pune", "University">>),
      Comma(<<"D">>, Comma(<<"Department", "of", "Chemistry">>,
                           <<"shivaji", "university">>)),
      Comma(<<"E">>, Comma(<<"abc", "college">>, <<"Saveetha", "University">>)),
      Comma(<<"F">>, Comma(<<"Dept.", "of", "Phys.">>,
                           <<"Shivaji", "University">>)),
      Comma(<<"H">>, Comma(<<"Department", "of", "Physics">>,
                           Comma(<<"Department", "of", "Commerce", "and",
                                   "Management", "M.B.A.", "Unit">>,
                                 <<"Saveetha", "University", "Chennai">>))),
      <<"Shivaji", "University">> }

\* The sequences over S of length lo..hi
SeqsOf(S, lo, hi) == UNION {[1..n -> S] : n \in lo..hi}

\* "s1; s2; ..." for 1..MaxSegs segments of the pool
AffiliationTexts ==
    {Join(<<";", " ">>, q) : q \in SeqsOf(SegmentPool, 1, MaxSegs)}

File(columns, rows) == [kind |-> "file", columns |-> columns, rows |-> rows]

\* One record of an export with author names, every affiliation text.
AuthorFiles ==
    { File(<<"Authors with affiliations", "Cited by">>,
           << ("Authors with affiliations" :> StrCell(a) @@
               "Cited by" :> NumCell(5)) >>) : a \in AffiliationTexts }

\* The affiliation values of the rows of a longer table: an empty cell, one
\* department, the same department in two segments, and no eligible segment.
TableAffiliations ==
    LET physics == Comma(<<"B">>, Comma(<<"Department", "of", "Physics">>,
                                        <<"Shivaji", "University">>))
    IN  { NaN,
          StrCell(physics),
          StrCell(physics \o <<";", " ">> \o physics),
          StrCell(Comma(<<"C">>, <<"Pune", "University">>)) }

\* The values of a "Cited by" cell: a number, an empty cell, a word.
CitedCells == {NumCell(3), NaN, StrCell(<<"unknown">>)}

TableFiles ==
    { File(<<"Affiliations", "Cited by">>, rows) :
        rows \in SeqsOf({ ("Affiliations" :> a @@ "Cited by" :> c) :
                            a \in TableAffiliations, c \in CitedCells },
                        0, MaxRows) }

\* Tables without a "Cited by" column.
UncitedFiles ==
    { File(<<"Affiliations">>, rows) :
        rows \in SeqsOf({ ("Affiliations" :> a) : a \in TableAffiliations },
                        0, MaxRows) }

\* The empty CSV, a CSV without an affiliation column, and one with both.
OddFiles ==
    { File(<<>>, <<>>),
      File(<<"Title">>, << ("Title" :> StrCell(<<"A">>)) >>),
      File(<<"Authors with affiliations", "Affiliations">>,
           << ("Authors with affiliations" :>
                   StrCell(Comma(<<"C">>, <<"Pune", "University">>)) @@
               "Affiliations" :>
                   StrCell(Comma(<<"Department", "of", "Physics">>,
                                 <<"Shivaji", "University">>))) >>) }

Files == AuthorFiles \cup TableFiles \cup UncitedFiles \cup OddFiles

-----------------------------------------------------------------------------
(* One run of the script, app.py lines 11 and 185-190.                     *)

Init ==
    /\ uploaded_file = None
    /\ pc = "file_uploader"
    /\ processed_df = None
    /\ stats_df = None

\* line 11: the user uploads a CSV
Upload(file) ==
    /\ pc = "file_uploader"
    /\ uploaded_file' = file
    /\ pc' = "process_file"
    /\ UNCHANGED <<processed_df, stats_df>>

\* lines 188-190: no file
NoUpload ==
    /\ pc = "file_uploader"
    /\ pc' = "display"
    /\ processed_df' = None
    /\ stats_df' = None
    /\ UNCHANGED uploaded_file

\* line 186; an exception ends the run
ProcessFile ==
    /\ pc = "process_file"
    /\ LET result == process_file(uploaded_file)
       IN  IF result = Raise
           THEN pc' = "raised" /\ UNCHANGED processed_df
           ELSE pc' = "process_department_stats" /\ processed_df' = result
    /\ UNCHANGED <<uploaded_file, stats_df>>

\* line 187
ProcessDepartmentStats ==
    /\ pc = "process_department_stats"
    /\ LET result == process_department_stats(uploaded_file)
       IN  IF result = Raise
           THEN pc' = "raised" /\ UNCHANGED stats_df
           ELSE pc' = "display" /\ stats_df' = result
    /\ UNCHANGED <<uploaded_file, processed_df>>

Next ==
    \/ \E file \in Files : Upload(file)
    \/ NoUpload
    \/ ProcessFile
    \/ ProcessDepartmentStats

Spec == Init /\ [][Next]_vars

-----------------------------------------------------------------------------
(* What the properties below speak of.                                     *)

\* process_file has returned a table
FileProcessed == pc \in {"process_department_stats", "display"}
                 /\ processed_df.kind = "DataFrame"

\* process_department_stats has returned a table
StatsReturned == pc = "display" /\ stats_df.kind = "DataFrame"

\* The rows of the uploaded table and the affiliation value of row i
RowIndices == 1..Len(uploaded_file.rows)

AffilCell(i) == uploaded_file.rows[i][AffilField(uploaded_file.columns)]

\* The segments of row i, trimmed
SegmentsOf(i) ==
    LET parts == Split(AffilCell(i).s, ";")
    IN  [j \in 1..Len(parts) |-> Strip(parts[j])]

\* A segment names a target institution, in any letter case
NamesTarget(seg) ==
    LET lowered == Lower(seg)
    IN  \E k \in 1..Len(valid_affiliations) :
            Contains(Lower(valid_affiliations[k]), lowered)

\* A segment holds an exclusion phrase, in any letter case
NamesExclusion(seg) ==
    LET lowered == Lower(seg)
    IN  \E k \in 1..Len(exclusion_keywords) :
            Contains(Lower(exclusion_keywords[k]), lowered)

\* The segment filter: a target institution and no exclusion phrase
Eligible(seg) == NamesTarget(seg) /\ ~NamesExclusion(seg)

\* The vocabulary entries (by index) an eligible segment names
NamedIn(seg) ==
    LET lowered == Lower(seg)
    IN  IF Eligible(seg)
        THEN {k \in 1..Len(valid_departments) :
                  Contains(Lower(valid_departments[k]), lowered)}
        ELSE {}

\* The vocabulary entries named in some eligible segment of row i
NamedInRow(i) == UNION {NamedIn(SegmentsOf(i)[j]) : j \in 1..Len(SegmentsOf(i))}

\* The first index at which the separator sequence occurs, 0 if none
FirstOccurrence(s, sep) ==
    LET at == {i \in 1..(Len(s) - Len(sep) + 1) :
                   SubSeq(s, i, i + Len(sep) - 1) = sep}
    IN  IF at = {} THEN 0 ELSE CHOOSE i \in at : \A j \in at : i <= j

\* s.split(sep) for a separator of several characters
RECURSIVE SplitOn(_, _)
SplitOn(s, sep) ==
    LET i == FirstOccurrence(s, sep)
    IN  IF i = 0 THEN <<s>>
        ELSE <<SubSeq(s, 1, i - 1)>>
                 \o SplitOn(SubSeq(s, i + Len(sep), Len(s)), sep)

\* The Department label of row i and the names it lists
LabelOf(i) == processed_df.rows[i]["Department"].s

NamesOf(i) == SplitOn(LabelOf(i), <<";", " ">>)

\* The name and the affiliation of a trimmed segment with a comma
HasComma(seg) == FirstIndex(seg, ",") # 0

NameOf(seg) == Strip(SubSeq(seg, 1, FirstIndex(seg, ",") - 1))

AffiliationOf(seg) == Strip(SubSeq(seg, FirstIndex(seg, ",") + 1, Len(seg)))

\* The alias phrases of extract_departments with the department each maps to
AliasTable ==
    [p \in 1..Len(nanoscience_aliases) |->
        <<nanoscience_aliases[p], SchoolOfNanoscienceAndBiotechnology>>]
    \o [p \in 1..Len(chemistry_aliases) |->
        <<chemistry_aliases[p], DepartmentOfChemistry>>]
    \o [p \in 1..Len(physics_aliases) |->
        <<physics_aliases[p], DepartmentOfPhysics>>]

RECURSIVE SumOver(_, _)
SumOver(f, S) ==
    IF S = {} THEN 0
    ELSE LET x == CHOOSE x \in S : TRUE IN f[x] + SumOver(f, S \ {x})

-----------------------------------------------------------------------------
(* Properties of extract_departments.                                      *)

\* The first segment of row i that names vocabulary entry k
FirstSegment(i, k) ==
    CHOOSE j \in 1..Len(SegmentsOf(i)) :
        /\ k \in NamedIn(SegmentsOf(i)[j])
        /\ \A h \in 1..(j - 1) : k \notin NamedIn(SegmentsOf(i)[h])

VocabularyIndex(name) ==
    CHOOSE k \in 1..Len(valid_departments) : valid_departments[k] = name

\* C9: the Department label of every record lists exactly the vocabulary
\* names that occur (in any letter case) in some eligible segment, each once,
\* ordered by the first segment that names them and by vocabulary order
\* within one segment; it is "Other" iff there is no such name.
RecordClassification ==
    FileProcessed =>
        \A i \in RowIndices :
            LET named == NamedInRow(i)
                names == NamesOf(i)
            IN  IF named = {} THEN LabelOf(i) = Other
                ELSE /\ LabelOf(i) # Other
                     /\ Len(names) = Cardinality(named)
                     /\ {names[p] : p \in 1..Len(names)}
                            = {valid_departments[k] : k \in named}
                     /\ \A p, q \in 1..Len(names) :
                            p < q =>
                                LET a == VocabularyIndex(names[p])
                                    b == VocabularyIndex(names[q])
                                IN  \/ FirstSegment(i, a) < FirstSegment(i, b)
                                    \/ /\ FirstSegment(i, a) = FirstSegment(i, b)
                                       /\ a < b

\* A record whose label lists a name of its second segment before a name
\* of its third, one segment naming two entries, and a name met twice.
RecordClassificationWitness ==
    /\ FileProcessed
    /\ \E i \in RowIndices :
           /\ Len(NamesOf(i)) >= 3
           /\ \E j \in 1..Len(SegmentsOf(i)) :
                  Cardinality(NamedIn(SegmentsOf(i)[j])) >= 2
           /\ \E j, h \in 1..Len(SegmentsOf(i)) :
                  j < h /\ NamedIn(SegmentsOf(i)[j]) \cap NamedIn(SegmentsOf(i)[h]) # {}
           /\ \E p, q \in 1..Len(NamesOf(i)) :
                  p < q /\ VocabularyIndex(NamesOf(i)[p]) > VocabularyIndex(NamesOf(i)[q])

\* C3: every Department label is "Other" or lists only entries of
\* valid_departments.
VocabularyClosure ==
    FileProcessed =>
        \A i \in RowIndices :
            \/ LabelOf(i) = Other
            \/ \A p \in 1..Len(NamesOf(i)) : InList(NamesOf(i)[p], valid_departments)

\* A record with an alias phrase in an eligible segment and a label of two
\* names, and in the same table state a label that is not "Other".
VocabularyClosureWitness ==
    /\ FileProcessed
    /\ \E i \in RowIndices :
           /\ \E j \in 1..Len(SegmentsOf(i)) :
                  /\ Eligible(SegmentsOf(i)[j])
                  /\ \E a \in 1..Len(AliasTable) :
                         Contains(AliasTable[a][1], SegmentsOf(i)[j])
           /\ Len(NamesOf(i)) >= 2
           /\ LabelOf(i) # Other

-----------------------------------------------------------------------------
(* Properties of the corresponding-author selection of process_file.       *)

CorrespondingAuthor(i) == processed_df.rows[i]["Corresponding Author"]

CorrespondingAffiliation(i) == processed_df.rows[i]["Corresponding Affiliation"]

\* The segments of row i that process_file accepts as "Name, Affiliation"
\* of a valid author (the test of lines 104-114)
Candidates(i) ==
    {j \in 1..Len(SegmentsOf(i)) :
        /\ HasComma(SegmentsOf(i)[j])
        /\ IsValidAuthor(AffiliationOf(SegmentsOf(i)[j]))}

-----------------------------------------------------------------------------
(* Properties of process_department_stats.                                 *)

\* C7: the statistics table has one row per entry of valid_departments, in
\* that order, then the row "Other"; a row no record is counted in has
\* Papers = 0 and Citations = 0 (a row with a count has a record for it).
Completeness ==
    StatsReturned =>
        LET rows == stats_df.rows
            n == Len(valid_departments)
        IN  /\ Len(rows) = n + 1
            /\ \A k \in 1..n : rows[k].Department = valid_departments[k]
            /\ rows[n + 1].Department = Other
            /\ \A k \in 1..n :
                   (rows[k].Papers # 0 \/ rows[k].Citations # Float(0)) =>
                       \E i \in RowIndices : k \in NamedInRow(i)
            /\ (rows[n + 1].Papers # 0 \/ rows[n + 1].Citations # Float(0)) =>
                   \E i \in RowIndices : NamedInRow(i) = {}

\* The statistics of a table with an affiliation column and no row.
CompletenessWitness ==
    /\ StatsReturned
    /\ AffilField(uploaded_file.columns) # ""
    /\ uploaded_file.rows = <<>>
    /\ Len(stats_df.rows) = Len(valid_departments) + 1

\* The times row i of the table is counted in row k of the statistics: once
\* per eligible segment that names the department, and once in "Other" when
\* no eligible segment names any.
Increments(i, k) ==
    IF k <= Len(valid_departments)
    THEN Cardinality({j \in 1..Len(SegmentsOf(i)) : k \in NamedIn(SegmentsOf(i)[j])})
    ELSE IF NamedInRow(i) = {} THEN 1 ELSE 0

\* The citation count of row i when it is numeric, else 0
NumericCitation(i) ==
    IF ~InList("Cited by", uploaded_file.columns) THEN 0
    ELSE LET cell == uploaded_file.rows[i]["Cited by"]
         IN  IF cell.t = "num" THEN cell.v
             ELSE IF cell.t = "str" /\ ~FloatRaises(cell) THEN FloatOf(cell).v
             ELSE 0

\* The times a name is listed in the Department label of row i
Listed(i, name) ==
    Cardinality({p \in 1..Len(NamesOf(i)) : NamesOf(i)[p] = name})

\* C2: the paper count of every row of the statistics is the number of
\* times its department is listed in the Department labels of the records.
AggregationAgreesWithLabels ==
    (StatsReturned /\ processed_df.kind = "DataFrame") =>
        \A k \in 1..Len(stats_df.rows) :
            stats_df.rows[k].Papers
                = SumOver([i \in RowIndices |->
                              Listed(i, stats_df.rows[k].Department)],
                          RowIndices)

\* C6: the citation total of every row of the statistics is a number, the
\* sum of the numeric citation counts of the records counted in the row; an
\* absent, empty or non-numeric citation value adds 0.
CitationDefaulting ==
    StatsReturned =>
        \A k \in 1..Len(stats_df.rows) :
            /\ ~stats_df.rows[k].Citations.nan
            /\ stats_df.rows[k].Citations.v
                   = SumOver([i \in RowIndices |->
                                 NumericCitation(i) * Increments(i, k)],
                             RowIndices)

-----------------------------------------------------------------------------
(* Properties of the handling of segments and of malformed values.         *)

\* C4: a record whose affiliation value is no str never makes process_file
\* or process_department_stats raise; it gets the label "Other" and an
\* empty corresponding author and affiliation, and is counted in "Other".
MalformedAffiliationDegrades ==
    /\ pc # "raised"
    /\ FileProcessed =>
           \A i \in RowIndices :
               AffilCell(i).t # "str" =>
                   /\ processed_df.rows[i]["Department"] = StrCell(Other)
                   /\ CorrespondingAuthor(i) = StrCell(<<>>)
                   /\ CorrespondingAffiliation(i) = StrCell(<<>>)
    /\ StatsReturned =>
           stats_df.rows[Len(stats_df.rows)].Papers
               >= Cardinality({i \in RowIndices : AffilCell(i).t # "str"})

\* C1: a segment that names a target institution and holds an exclusion
\* phrase adds no department to the label, no count to the statistics and
\* no candidate to the corresponding-author selection.
ExclusionDominance ==
    FileProcessed =>
        \A i \in RowIndices :
            \A j \in 1..Len(SegmentsOf(i)) :
                LET seg == SegmentsOf(i)[j]
                    untouched == [stats |-> InitialStats, found |-> FALSE]
                IN  (NamesTarget(seg) /\ NamesExclusion(seg)) =>
                        /\ SegmentStep(<<>>, seg) = <<>>
                        /\ TallySegment(untouched, seg, Float(1)) = untouched
                        /\ AuthorStep(<<>>, seg) = <<>>

\* C8: a "Name, Affiliation" segment is a candidate for the corresponding
\* author iff its affiliation passes the segment filter: it names a target
\* institution in any letter case and holds no exclusion phrase.
UniformSegmentFilter ==
    FileProcessed =>
        \A i \in RowIndices :
            \A j \in 1..Len(SegmentsOf(i)) :
                LET seg == SegmentsOf(i)[j]
                IN  HasComma(seg) =>
                        (AuthorStep(<<>>, seg) # <<>>
                             <=> Eligible(AffiliationOf(seg)))

\* C10: the label of a record lists the department of every alias phrase
\* that occurs in an eligible segment of the record.
AliasPass ==
    FileProcessed =>
        \A i \in RowIndices :
            \A j \in 1..Len(SegmentsOf(i)) :
                LET seg == SegmentsOf(i)[j]
                IN  Eligible(seg) =>
                        \A a \in 1..Len(AliasTable) :
                            Contains(AliasTable[a][1], seg) =>
                                InList(AliasTable[a][2], NamesOf(i))

====
